---- MODULE Spec2Model ----
(***************************************************************************)
(* A model of libnosr-rs: the lexer (lexer.rs), the document entry point   *)
(* (parser.rs) and the navigator and scalar coercions (node.rs).           *)
(*                                                                         *)
(* A source is a sequence of one-character strings.  The model covers      *)
(* ASCII sources, so a byte offset is a character offset; offsets are      *)
(* 0-based as in the code, and the character at offset p is source[p + 1]. *)
(***************************************************************************)
EXTENDS Integers, Sequences, FiniteSets, TLC

VARIABLES source, written, node, out

vars == <<source, written, node, out>>

(***************************************************************************)
(* span.rs                                                                 *)
(***************************************************************************)
Span(start, len) == [start |-> start, len |-> len]

end(span) == span.start + span.len

extract(span, src) == SubSeq(src, span.start + 1, end(span))

\* The debug_assert! of merge: the spans overlap or touch
contiguous(a, b) == end(a) >= b.start /\ end(b) >= a.start

\* A failed assertion
Panic == [ok |-> FALSE, kind |-> "panic"]

min(x, y) == IF x <= y THEN x ELSE y

max(x, y) == IF x >= y THEN x ELSE y

\* Span::merge: the span from the least start to the greatest end.  The
\* assertion is compiled into debug builds only, so on spans with a gap
\* between them a build either panics or returns.
merge(a, b) ==
    LET start == min(a.start, b.start)
        merged == [ok |-> TRUE, span |-> Span(start, max(end(a), end(b)) - start)]
    IN  IF contiguous(a, b) THEN {merged} ELSE {merged, Panic}

(***************************************************************************)
(* error.rs: an Error is a kind, the kind's payload (a character, a        *)
(* message, or NoArg) and a span.                                          *)
(***************************************************************************)
NoArg == "none"

Error(kind, arg, span) == [ok |-> FALSE, kind |-> kind, arg |-> arg, span |-> span]

(***************************************************************************)
(* lexer.rs                                                                *)
(***************************************************************************)
NoChar == "eof"

Token(kind, span, pos) == [ok |-> TRUE, kind |-> kind, span |-> span, pos |-> pos]

peek(src, pos) == IF pos < Len(src) THEN src[pos + 1] ELSE NoChar

peek_at(src, pos, offset) ==
    IF pos + offset < Len(src) THEN src[pos + offset + 1] ELSE NoChar

RECURSIVE skip_whitespace(_, _)
skip_whitespace(src, pos) ==
    IF peek(src, pos) \in {" ", "\t", "\r"}
    THEN skip_whitespace(src, pos + 1)
    ELSE pos

\* The loop of skip_line_comment, entered after the '#' is consumed.
RECURSIVE line_comment_loop(_, _)
line_comment_loop(src, pos) ==
    IF peek(src, pos) = NoChar THEN pos
    ELSE IF peek(src, pos) = "\n" THEN pos + 1
    ELSE line_comment_loop(src, pos + 1)

\* a line comment that runs to the end of input, past its newline
skip_comment_to_eof(src, pos) == Len(src)

\* skip_line_comment, stopping in front of the newline
RECURSIVE line_comment_before_newline(_, _)
line_comment_before_newline(src, pos) ==
    IF peek(src, pos) \in {NoChar, "\n"} THEN pos
    ELSE line_comment_before_newline(src, pos + 1)

skip_line_comment_keep_newline(src, pos) == line_comment_before_newline(src, pos + 1)

skip_line_comment(src, pos) == line_comment_loop(src, pos + 1)

\* The loop of skip_block_comment, entered after the "#*" is consumed.
RECURSIVE block_comment_loop(_, _, _)
block_comment_loop(src, start, pos) ==
    CASE peek(src, pos) = NoChar ->
           Error("UnclosedComment", NoArg, Span(start, pos - start))
      [] peek(src, pos) = "*" ->
           IF peek(src, pos + 1) = "#"
           THEN [ok |-> TRUE, pos |-> pos + 2]
           ELSE block_comment_loop(src, start, pos + 1)
      [] OTHER -> block_comment_loop(src, start, pos + 1)

\* skip_block_comment, looking for the closing "*#" from the '*' of the
\* opening "#*" on
skip_block_comment_overlap(src, pos) == block_comment_loop(src, pos, pos + 1)

skip_block_comment(src, pos) == block_comment_loop(src, pos, pos + 2)

\* string_loop, a backslash consuming nothing but itself
RECURSIVE string_loop_plain_backslash(_, _, _)
string_loop_plain_backslash(src, start, pos) ==
    CASE peek(src, pos) = NoChar ->
           Error("UnclosedString", NoArg, Span(start, pos - start))
      [] peek(src, pos) = "\"" ->
           Token("String", Span(start, pos + 1 - start), pos + 1)
      [] OTHER -> string_loop_plain_backslash(src, start, pos + 1)

\* The loop of lex_string, entered after the opening quote is consumed.
RECURSIVE string_loop(_, _, _)
string_loop(src, start, pos) ==
    CASE peek(src, pos) = NoChar ->
           Error("UnclosedString", NoArg, Span(start, pos - start))
      [] peek(src, pos) = "\"" ->
           Token("String", Span(start, pos + 1 - start), pos + 1)
      [] peek(src, pos) = "\\" ->
           IF peek(src, pos + 1) = NoChar
           THEN Error("UnclosedString", NoArg, Span(start, pos + 1 - start))
           ELSE string_loop(src, start, pos + 2)
      [] OTHER -> string_loop(src, start, pos + 1)

lex_string(src, pos) == string_loop(src, pos, pos + 1)

ScalarStopNoSpace == {"{", "}", "[", "]", ":", ",", "\n", "\t", "\r"}

ScalarStop == {"{", "}", "[", "]", ":", ",", "\n", " ", "\t", "\r"}

\* scalar_loop, every '#' ending the scalar
RECURSIVE scalar_loop_any_hash(_, _)
scalar_loop_any_hash(src, pos) ==
    CASE peek(src, pos) = NoChar -> pos
      [] peek(src, pos) \in ScalarStop -> pos
      [] peek(src, pos) = "#" -> pos
      [] OTHER -> scalar_loop_any_hash(src, pos + 1)

RECURSIVE scalar_loop(_, _)
scalar_loop(src, pos) ==
    CASE peek(src, pos) = NoChar -> pos
      [] peek(src, pos) \in ScalarStop -> pos
      [] peek(src, pos) = "#" /\ peek_at(src, pos, 1) = "*" -> pos
      [] OTHER -> scalar_loop(src, pos + 1)

lex_scalar(src, pos) ==
    LET stop == scalar_loop(src, pos)
    IN  Token("Scalar", Span(pos, stop - pos), stop)

StructuralKind(ch) ==
    CASE ch = "\n" -> "Newline"
      [] ch = "{" -> "LeftBrace"
      [] ch = "}" -> "RightBrace"
      [] ch = "[" -> "LeftBracket"
      [] ch = "]" -> "RightBracket"
      [] ch = ":" -> "Colon"
      [] ch = "," -> "Comma"

\* next_token from position pos: the token and the position after it, or
\* the lexical error.  (The steps of the loop are operators of their own so
\* that each value is computed once.)
RECURSIVE next_token(_, _)

\* After a block comment: loop, or propagate its error
after_block_comment(src, skipped) ==
    IF skipped.ok THEN next_token(src, skipped.pos) ELSE skipped

\* match_peek, a structural character returned without being consumed
match_peek_not_consumed(src, start, ch) ==
    CASE ch = NoChar -> Token("Eof", Span(start, 0), start)
      [] ch \in {"\n", "{", "}", "[", "]", ":", ","} ->
           Token(StructuralKind(ch), Span(start, 1), start)
      [] ch = "\"" -> lex_string(src, start)
      [] ch = "#" ->
           IF peek_at(src, start, 1) = "*"
           THEN after_block_comment(src, skip_block_comment(src, start))
           ELSE next_token(src, skip_line_comment(src, start))
      [] OTHER -> lex_scalar(src, start)

\* The match on the character ch peeked at start
match_peek(src, start, ch) ==
    CASE ch = NoChar -> Token("Eof", Span(start, 0), start)
      [] ch \in {"\n", "{", "}", "[", "]", ":", ","} ->
           Token(StructuralKind(ch), Span(start, 1), start + 1)
      [] ch = "\"" -> lex_string(src, start)
      [] ch = "#" ->
           IF peek_at(src, start, 1) = "*"
           THEN after_block_comment(src, skip_block_comment(src, start))
           ELSE next_token(src, skip_line_comment(src, start))
      [] OTHER -> lex_scalar(src, start)

token_at(src, start) == match_peek(src, start, peek(src, start))

next_token(src, pos) == token_at(src, skip_whitespace(src, pos))

(***************************************************************************)
(* parser.rs                                                               *)
(***************************************************************************)
Node(span) == [ok |-> TRUE, span |-> span]

\* The first loop of document: skip Newline tokens.
RECURSIVE first_real_token(_, _)

skip_newline(src, tok) ==
    IF tok.ok /\ tok.kind = "Newline" THEN first_real_token(src, tok.pos) ELSE tok

first_real_token(src, pos) == skip_newline(src, next_token(src, pos))

\* document not scanning past its first token
first_token_only(src, pos, last_span) == [ok |-> TRUE, span |-> last_span]

\* The second loop of document: the span of the last non-Newline token.
RECURSIVE last_token_span(_, _, _)

\* track_last taking a Newline token as the last token too
track_last_newline(src, tok, last_span) ==
    IF ~tok.ok THEN tok
    ELSE IF tok.kind = "Eof" THEN [ok |-> TRUE, span |-> last_span]
    ELSE last_token_span(src, tok.pos, tok.span)

track_last(src, tok, last_span) ==
    IF ~tok.ok THEN tok
    ELSE IF tok.kind = "Eof" THEN [ok |-> TRUE, span |-> last_span]
    ELSE last_token_span(src, tok.pos,
                         IF tok.kind # "Newline" THEN tok.span ELSE last_span)

last_token_span(src, pos, last_span) ==
    track_last(src, next_token(src, pos), last_span)

\* document counting the last token's end offset into the length
document_node_inclusive(first_token, last) ==
    IF ~last.ok THEN last
    ELSE Node(Span(first_token.span.start,
                   end(last.span) - first_token.span.start + 1))

\* The end of document: the Node from the first token's start to the last
\* token's end
document_node(first_token, last) ==
    IF ~last.ok THEN last
    ELSE Node(Span(first_token.span.start, end(last.span) - first_token.span.start))

\* document giving the empty document the span of its Eof token
document_from_eof_span(src, first_token) ==
    IF ~first_token.ok THEN first_token
    ELSE IF first_token.kind = "Eof" THEN Node(first_token.span)
    ELSE document_node(first_token,
                       last_token_span(src, first_token.pos, first_token.span))

document_from(src, first_token) ==
    IF ~first_token.ok THEN first_token
    ELSE IF first_token.kind = "Eof" THEN Node(Span(0, 0))
    ELSE document_node(first_token,
                       last_token_span(src, first_token.pos, first_token.span))

document(src) == document_from(src, first_real_token(src, 0))

(***************************************************************************)
(* node.rs                                                                 *)
(***************************************************************************)
WhiteSpace == {" ", "\t", "\n", "\r"}

RECURSIVE trim_start(_)
trim_start(s) ==
    IF s # <<>> /\ Head(s) \in WhiteSpace THEN trim_start(Tail(s)) ELSE s

RECURSIVE trim_end(_)
trim_end(s) ==
    IF s # <<>> /\ s[Len(s)] \in WhiteSpace
    THEN trim_end(SubSeq(s, 1, Len(s) - 1))
    ELSE s

\* str::trim
trim(s) == trim_end(trim_start(s))

\* Node::raw
raw(src, span) == extract(span, src)

starts_with(s, ch) == s # <<>> /\ s[1] = ch

ends_with(s, ch) == s # <<>> /\ s[Len(s)] = ch

\* unescape without the entry for '}'
unescape_no_rbrace(ch) ==
    CASE ch = "\\" -> "\\"
      [] ch = "n" -> "\n"
      [] ch = "t" -> "\t"
      [] ch = "r" -> "\r"
      [] ch = ":" -> ":"
      [] ch = "\"" -> "\""
      [] ch = "[" -> "["
      [] ch = "]" -> "]"
      [] ch = "{" -> "{"
      [] OTHER -> NoChar

\* The escape table of text(): the character an escaped character stands
\* for, or NoChar when the escape is invalid.
unescape(ch) ==
    CASE ch = "\\" -> "\\"
      [] ch = "n" -> "\n"
      [] ch = "t" -> "\t"
      [] ch = "r" -> "\r"
      [] ch = ":" -> ":"
      [] ch = "\"" -> "\""
      [] ch = "[" -> "["
      [] ch = "]" -> "]"
      [] ch = "{" -> "{"
      [] ch = "}" -> "}"
      [] OTHER -> NoChar

NoString == [some |-> FALSE, s |-> <<>>]

SomeString(s) == [some |-> TRUE, s |-> s]

\* The loop of text() over the characters of a quoted string's interior:
\* i is the iterator's next character, pos the byte offset the code tracks,
\* result the Option<String> that is allocated at the first escape.
RECURSIVE text_loop(_, _, _, _, _)
text_loop(inner, span, i, pos, result) ==
    IF i > Len(inner)
    THEN [ok |-> TRUE,
          val |-> IF result.some THEN result.s ELSE inner,
          owned |-> result.some]
    ELSE IF inner[i] = "\\"
    THEN LET s == IF result.some THEN result.s ELSE SubSeq(inner, 1, pos)
         IN  IF i + 1 > Len(inner)
             THEN Error("UnexpectedEof", NoArg, span)
             ELSE IF unescape(inner[i + 1]) # NoChar
             THEN text_loop(inner, span, i + 2, pos + 2,
                            SomeString(Append(s, unescape(inner[i + 1]))))
             ELSE Error("InvalidEscape", inner[i + 1], span)
    ELSE text_loop(inner, span, i + 1, pos + 1,
                   IF result.some THEN SomeString(Append(result.s, inner[i]))
                   ELSE result)

\* text() from the trimmed raw text
text_of(content, span) ==
    IF content = <<>> THEN Error("NotAScalar", NoArg, span)
    ELSE IF starts_with(content, "\"")
    THEN IF ~ends_with(content, "\"") \/ Len(content) < 2
         THEN Error("UnclosedString", NoArg, span)
         ELSE text_loop(SubSeq(content, 2, Len(content) - 1), span, 1, 0, NoString)
    ELSE [ok |-> TRUE, val |-> content, owned |-> FALSE]

\* text() without the trim
text_untrimmed(src, span) == text_of(raw(src, span), span)

text(src, span) == text_of(trim(raw(src, span)), span)

\* The loop of parse_balanced; depth counts '{' and '[' alike.
RECURSIVE balanced_loop(_, _, _, _)

\* balanced_step taking the end of input as the end of the value
balanced_step_eof_closes(src, tok, closing, depth) ==
    IF ~tok.ok THEN tok
    ELSE CASE tok.kind \in {"LeftBrace", "LeftBracket"} ->
                balanced_loop(src, tok.pos, closing, depth + 1)
           [] tok.kind \in {"RightBrace", "RightBracket"} ->
                IF depth - 1 > 0
                THEN balanced_loop(src, tok.pos, closing, depth - 1)
                ELSE [ok |-> TRUE, span |-> tok.span, pos |-> tok.pos]
           [] tok.kind = "Eof" ->
                [ok |-> TRUE, span |-> tok.span, pos |-> tok.pos]
           [] OTHER -> balanced_loop(src, tok.pos, closing, depth)

\* balanced_step, a string that holds a closing character taken for it
balanced_step_counts_strings(src, tok, closing, depth) ==
    IF ~tok.ok THEN tok
    ELSE CASE tok.kind \in {"LeftBrace", "LeftBracket"} ->
                balanced_loop(src, tok.pos, closing, depth + 1)
           [] \/ tok.kind \in {"RightBrace", "RightBracket"}
              \/ /\ tok.kind = "String"
                 /\ \E i \in 1..tok.span.len :
                      extract(tok.span, src)[i] \in {"}", "]"} ->
                IF depth - 1 > 0
                THEN balanced_loop(src, tok.pos, closing, depth - 1)
                ELSE [ok |-> TRUE, span |-> tok.span, pos |-> tok.pos]
           [] tok.kind = "Eof" -> Error("UnexpectedEof", NoArg, tok.span)
           [] OTHER -> balanced_loop(src, tok.pos, closing, depth)

\* The match on a token of parse_balanced; when the depth reaches zero on
\* a token that is not the closing kind, the while loop ends and the
\* token's span is returned as last_span.
balanced_step(src, tok, closing, depth) ==
    IF ~tok.ok THEN tok
    ELSE CASE tok.kind \in {"LeftBrace", "LeftBracket"} ->
                balanced_loop(src, tok.pos, closing, depth + 1)
           [] tok.kind \in {"RightBrace", "RightBracket"} ->
                IF depth - 1 = 0 /\ tok.kind = closing
                THEN [ok |-> TRUE, span |-> tok.span, pos |-> tok.pos]
                ELSE IF depth - 1 > 0
                THEN balanced_loop(src, tok.pos, closing, depth - 1)
                ELSE [ok |-> TRUE, span |-> tok.span, pos |-> tok.pos]
           [] tok.kind = "Eof" -> Error("UnexpectedEof", NoArg, tok.span)
           [] OTHER -> balanced_loop(src, tok.pos, closing, depth)

balanced_loop(src, pos, closing, depth) ==
    balanced_step(src, next_token(src, pos), closing, depth)

parse_balanced(src, pos, closing) == balanced_loop(src, pos, closing, 1)

\* value_end, taking any other token for a simple value
value_end_any_token(src, tok) ==
    CASE tok.kind = "LeftBrace" -> parse_balanced(src, tok.pos, "RightBrace")
      [] tok.kind = "LeftBracket" -> parse_balanced(src, tok.pos, "RightBracket")
      [] OTHER -> [ok |-> TRUE, span |-> tok.span, pos |-> tok.pos]

\* The match on the first token of a value (a table value or a vector
\* element): the span of the value's last token and the lexer position
\* after it.
value_end(src, tok) ==
    CASE tok.kind = "LeftBrace" -> parse_balanced(src, tok.pos, "RightBrace")
      [] tok.kind = "LeftBracket" -> parse_balanced(src, tok.pos, "RightBracket")
      [] tok.kind \in {"String", "Scalar"} ->
           [ok |-> TRUE, span |-> tok.span, pos |-> tok.pos]
      [] OTHER ->
           Error("UnexpectedChar",
                 IF extract(tok.span, src) # <<>> THEN extract(tok.span, src)[1] ELSE " ",
                 tok.span)

\* skip_delimiters with Newline not taken as a delimiter
RECURSIVE skip_commas_only(_, _, _)

next_comma_only(src, nxt, saw_comma) ==
    IF nxt.ok THEN skip_commas_only(src, nxt, saw_comma) ELSE nxt

skip_commas_only(src, tok, saw_comma) ==
    IF tok.kind = "Comma"
    THEN IF saw_comma
         THEN Error("ConsecutiveDelimiters", NoArg, tok.span)
         ELSE next_comma_only(src, next_token(src, tok.pos), TRUE)
    ELSE tok

\* The inner while loop of table() and vector(): skip Newline and Comma
\* tokens, failing on a second comma with no newline since the first.
RECURSIVE skip_delimiters(_, _, _)

\* tok = lexer.next_token()? at the end of the while loop's body
next_delimiter(src, nxt, saw_comma) ==
    IF nxt.ok THEN skip_delimiters(src, nxt, saw_comma) ELSE nxt

skip_delimiters(src, tok, saw_comma) ==
    IF tok.kind = "Comma"
    THEN IF saw_comma
         THEN Error("ConsecutiveDelimiters", NoArg, tok.span)
         ELSE next_delimiter(src, next_token(src, tok.pos), TRUE)
    ELSE IF tok.kind = "Newline"
    THEN next_delimiter(src, next_token(src, tok.pos), FALSE)
    ELSE tok

\* The head of the loop of table() and of vector(): the first token that is
\* not a delimiter
after_delimiters(src, first) ==
    IF first.ok THEN skip_delimiters(src, first, FALSE) ELSE first

at_close_or_eof(tok, closing) == tok.kind \in {closing, "Eof"}

\* The test that ends the loop of table() and of vector()
at_close(tok, closing) == tok.kind = closing

\* an insert that keeps the entry a key already has
insert_if_absent(map, key, value) ==
    [k \in DOMAIN map \cup {key} |-> IF k \in DOMAIN map THEN map[k] ELSE value]

\* HashMap::insert
insert(map, key, value) ==
    [k \in DOMAIN map \cup {key} |-> IF k = key THEN value ELSE map[k]]

EmptyMap == [k \in {} |-> Span(0, 0)]

\* key_text storing a String token's raw text, quotes and escapes included
key_text_raw(src, tok) ==
    IF tok.kind \in {"String", "Scalar"}
    THEN [ok |-> TRUE, val |-> extract(tok.span, src)]
    ELSE Error("ExpectedChar", ":", tok.span)

\* The key of a table entry from the token in key position.
key_text(src, tok) ==
    IF tok.kind = "String" THEN text(src, tok.span)
    ELSE IF tok.kind = "Scalar" THEN [ok |-> TRUE, val |-> extract(tok.span, src)]
    ELSE Error("ExpectedChar", ":", tok.span)

\* The loop of table() over the key-value pairs.
RECURSIVE table_loop(_, _, _)

\* result.insert(key_text, Node::new(node.source, value_span))
table_insert(src, key, vtok, vend, result) ==
    IF ~vend.ok THEN vend
    ELSE table_loop(src, vend.pos,
                    insert(result, key.val,
                           Span(vtok.span.start, end(vend.span) - vtok.span.start)))

\* The value, from its first token vtok
table_value(src, key, vtok, result) ==
    IF ~vtok.ok THEN vtok
    ELSE table_insert(src, key, vtok, value_end(src, vtok), result)

\* table_colon, taking whatever token follows the key for the colon
table_colon_no_check(src, key, colon, result) ==
    IF ~colon.ok THEN colon
    ELSE table_value(src, key, next_token(src, colon.pos), result)

\* The token after the key must be a colon
table_colon(src, key, colon, result) ==
    IF ~colon.ok THEN colon
    ELSE IF colon.kind # "Colon" THEN Error("ExpectedChar", ":", colon.span)
    ELSE table_value(src, key, next_token(src, colon.pos), result)

\* The key, then the token after it
table_key(src, tok, key, result) ==
    IF ~key.ok THEN key
    ELSE table_colon(src, key, next_token(src, tok.pos), result)

\* table_entry, the closing brace accepted only as the last token
table_entry_to_eof(src, tok, result) ==
    IF ~tok.ok THEN tok
    ELSE IF at_close(tok, "RightBrace")
         THEN IF next_token(src, tok.pos).ok /\ next_token(src, tok.pos).kind # "Eof"
              THEN Error("UnexpectedChar",
                         extract(next_token(src, tok.pos).span, src)[1],
                         next_token(src, tok.pos).span)
              ELSE [ok |-> TRUE, map |-> result]
    ELSE table_key(src, tok, key_text(src, tok), result)

\* The token in key position: the end of the table, or a key
table_entry(src, tok, result) ==
    IF ~tok.ok THEN tok
    ELSE IF at_close(tok, "RightBrace") THEN [ok |-> TRUE, map |-> result]
    ELSE table_key(src, tok, key_text(src, tok), result)

table_loop(src, pos, result) ==
    table_entry(src, after_delimiters(src, next_token(src, pos)), result)

\* The opening brace
table_open(src, span, token) ==
    IF ~token.ok THEN token
    ELSE IF token.kind # "LeftBrace" THEN Error("NotATable", NoArg, span)
    ELSE table_loop(src, token.pos, EmptyMap)

table(src, span) ==
    IF ~starts_with(trim(raw(src, span)), "{") THEN Error("NotATable", NoArg, span)
    ELSE table_open(src, span, next_token(src, span.start))

\* The loop of vector() over the elements.
RECURSIVE vector_loop(_, _, _)

\* a push of the element's first token only
vector_push_first_token(src, tok, elem_end, result) ==
    IF ~elem_end.ok THEN elem_end
    ELSE vector_loop(src, elem_end.pos, Append(result, tok.span))

\* vector_push, the element's span one character too long
vector_push_one_past(src, tok, elem_end, result) ==
    IF ~elem_end.ok THEN elem_end
    ELSE vector_loop(src, elem_end.pos,
                     Append(result,
                            Span(tok.span.start, end(elem_end.span) - tok.span.start + 1)))

\* result.push(Node::new(node.source, elem_span))
vector_push(src, tok, elem_end, result) ==
    IF ~elem_end.ok THEN elem_end
    ELSE vector_loop(src, elem_end.pos,
                     Append(result,
                            Span(tok.span.start, end(elem_end.span) - tok.span.start)))

\* The token in element position: the end of the vector, or an element
vector_element(src, tok, result) ==
    IF ~tok.ok THEN tok
    ELSE IF at_close(tok, "RightBracket") THEN [ok |-> TRUE, items |-> result]
    ELSE vector_push(src, tok, value_end(src, tok), result)

vector_loop(src, pos, result) ==
    vector_element(src, after_delimiters(src, next_token(src, pos)), result)

\* The opening bracket
vector_open(src, span, token) ==
    IF ~token.ok THEN token
    ELSE IF token.kind # "LeftBracket" THEN Error("NotAVector", NoArg, span)
    ELSE vector_loop(src, token.pos, <<>>)

\* vector() with the shape guard reporting the table's error kind
vector_guard_wrong_kind(src, span) ==
    IF ~starts_with(trim(raw(src, span)), "[") THEN Error("NotATable", NoArg, span)
    ELSE vector_open(src, span, next_token(src, span.start))

vector(src, span) ==
    IF ~starts_with(trim(raw(src, span)), "[") THEN Error("NotAVector", NoArg, span)
    ELSE vector_open(src, span, next_token(src, span.start))

\* u64 values are kept as decimal digit sequences without leading zeros.
IsDigit(ch) == ch \in {"0", "1", "2", "3", "4", "5", "6", "7", "8", "9"}

DigitVal(ch) ==
    CASE ch = "0" -> 0 [] ch = "1" -> 1 [] ch = "2" -> 2 [] ch = "3" -> 3
      [] ch = "4" -> 4 [] ch = "5" -> 5 [] ch = "6" -> 6 [] ch = "7" -> 7
      [] ch = "8" -> 8 [] ch = "9" -> 9

\* u64::MAX = 2^64 - 1
U64_MAX ==
    <<"1", "8", "4", "4", "6", "7", "4", "4", "0", "7",
      "3", "7", "0", "9", "5", "5", "1", "6", "1", "5">>

\* a > b for digit sequences of the same length
RECURSIVE digits_gt(_, _)
digits_gt(a, b) ==
    IF a = <<>> THEN FALSE
    ELSE IF Head(a) # Head(b) THEN DigitVal(Head(a)) > DigitVal(Head(b))
    ELSE digits_gt(Tail(a), Tail(b))

\* a > b for decimal numbers without leading zeros
dec_gt(a, b) == IF Len(a) # Len(b) THEN Len(a) > Len(b) ELSE digits_gt(a, b)

NoU64 == [some |-> FALSE, v |-> <<>>]

SomeU64(v) == [some |-> TRUE, v |-> v]

\* u64::checked_mul(result, 10)
checked_mul10(result) ==
    LET product == IF result = <<"0">> THEN result ELSE Append(result, "0")
    IN  IF dec_gt(product, U64_MAX) THEN NoU64 ELSE SomeU64(product)

\* an addition that does not check for overflow
unchecked_add(result, ch) == SomeU64([result EXCEPT ![Len(result)] = ch])

\* u64::checked_add(result, digit) for a result that is a multiple of ten
checked_add(result, ch) ==
    LET sum == [result EXCEPT ![Len(result)] = ch]
    IN  IF dec_gt(sum, U64_MAX) THEN NoU64 ELSE SomeU64(sum)

\* The digit loop of str::parse::<u64>
RECURSIVE parse_digits(_, _, _)
parse_digits(digits, i, result) ==
    IF i > Len(digits) THEN [ok |-> TRUE, val |-> result]
    ELSE LET mul == checked_mul10(result)
             add == checked_add(mul.v, digits[i])
         IN  IF ~IsDigit(digits[i]) THEN [ok |-> FALSE, e |-> "InvalidDigit"]
             ELSE IF ~mul.some THEN [ok |-> FALSE, e |-> "PosOverflow"]
             ELSE IF ~add.some THEN [ok |-> FALSE, e |-> "PosOverflow"]
             ELSE parse_digits(digits, i + 1, add.v)

\* str::parse::<u64>: an optional '+', then decimal digits
parse_u64(content) ==
    IF content = <<>> THEN [ok |-> FALSE, e |-> "Empty"]
    ELSE IF content \in {<<"+">>, <<"-">>} THEN [ok |-> FALSE, e |-> "InvalidDigit"]
    ELSE IF Head(content) = "+" THEN parse_digits(Tail(content), 1, <<"0">>)
    ELSE parse_digits(content, 1, <<"0">>)

uint64(src, span) ==
    LET parsed == parse_u64(trim(raw(src, span)))
    IN  IF parsed.ok THEN parsed
        ELSE Error("ParseError", parsed.e, span)

(***************************************************************************)
(* Single-member lookup, tab and vec.  The library's source does not hold  *)
(* them; they are modelled from the navigator's description: the scan of   *)
(* table and vector, skipping any run of Newline and Comma tokens between  *)
(* members, returning at once on the first member that matches, and        *)
(* failing with KeyNotFound or IndexOutOfBounds at the closing delimiter.  *)
(* A value's extent is computed as table and vector compute it.            *)
(***************************************************************************)
RECURSIVE skip_separators(_, _)
skip_separators(src, tok) ==
    IF tok.ok /\ tok.kind \in {"Newline", "Comma"}
    THEN skip_separators(src, next_token(src, tok.pos))
    ELSE tok

RECURSIVE tab_loop(_, _, _, _)

\* The value of an entry: returned when the entry's key is the one sought
tab_value(src, span, key, found, vtok, vend) ==
    IF ~vend.ok THEN vend
    ELSE IF found = key
    THEN Node(Span(vtok.span.start, end(vend.span) - vtok.span.start))
    ELSE tab_loop(src, span, vend.pos, key)

tab_colon(src, span, key, found, colon) ==
    IF ~colon.ok THEN colon
    ELSE IF colon.kind # "Colon" THEN Error("ExpectedChar", ":", colon.span)
    ELSE LET vtok == next_token(src, colon.pos)
         IN  IF ~vtok.ok THEN vtok
             ELSE tab_value(src, span, key, found, vtok, value_end(src, vtok))

tab_entry(src, span, key, tok) ==
    IF ~tok.ok THEN tok
    ELSE IF tok.kind = "RightBrace" THEN Error("KeyNotFound", key, span)
    ELSE LET found == key_text(src, tok)
         IN  IF ~found.ok THEN found
             ELSE tab_colon(src, span, key, found.val, next_token(src, tok.pos))

tab_loop(src, span, pos, key) ==
    tab_entry(src, span, key, skip_separators(src, next_token(src, pos)))

tab_open(src, span, key, token) ==
    IF ~token.ok THEN token
    ELSE IF token.kind # "LeftBrace" THEN Error("NotATable", NoArg, span)
    ELSE tab_loop(src, span, token.pos, key)

tab(src, span, key) ==
    IF ~starts_with(trim(raw(src, span)), "{") THEN Error("NotATable", NoArg, span)
    ELSE tab_open(src, span, key, next_token(src, span.start))

RECURSIVE vec_loop(_, _, _, _, _)

\* The element at position i: returned when i is the index sought
vec_element(src, span, index, i, tok, elem_end) ==
    IF ~elem_end.ok THEN elem_end
    ELSE IF i = index
    THEN Node(Span(tok.span.start, end(elem_end.span) - tok.span.start))
    ELSE vec_loop(src, span, elem_end.pos, index, i + 1)

vec_entry(src, span, index, i, tok) ==
    IF ~tok.ok THEN tok
    ELSE IF tok.kind = "RightBracket" THEN Error("IndexOutOfBounds", index, span)
    ELSE vec_element(src, span, index, i, tok, value_end(src, tok))

vec_loop(src, span, pos, index, i) ==
    vec_entry(src, span, index, i, skip_separators(src, next_token(src, pos)))

vec_open(src, span, index, token) ==
    IF ~token.ok THEN token
    ELSE IF token.kind # "LeftBracket" THEN Error("NotAVector", NoArg, span)
    ELSE vec_loop(src, span, token.pos, index, 0)

vec(src, span, index) ==
    IF ~starts_with(trim(raw(src, span)), "[") THEN Error("NotAVector", NoArg, span)
    ELSE vec_open(src, span, index, next_token(src, span.start))

(***************************************************************************)
(* The state machine: a caller holding a source obtains a Node, from       *)
(* document(source) or from Node::new over the whole source, and applies   *)
(* the navigator and coercion operations to it.                            *)
(***************************************************************************)
NoNode == [by |-> "none"]

NoOut == [op |-> "none"]

Document ==
    /\ node = NoNode
    /\ node' = [by |-> "document", res |-> document(source)]
    /\ UNCHANGED <<source, written, out>>

\* Node::new(source, Span::new(0, source.len()))
NodeNew ==
    /\ node = NoNode
    /\ node' = [by |-> "new", res |-> Node(Span(0, Len(source)))]
    /\ UNCHANGED <<source, written, out>>

HasNode == node # NoNode /\ node.res.ok

Table ==
    /\ HasNode
    /\ out' = [op |-> "table", res |-> table(source, node.res.span)]
    /\ UNCHANGED <<source, written, node>>

Vector ==
    /\ HasNode
    /\ out' = [op |-> "vector", res |-> vector(source, node.res.span)]
    /\ UNCHANGED <<source, written, node>>

Text ==
    /\ HasNode
    /\ out' = [op |-> "text", res |-> text(source, node.res.span)]
    /\ UNCHANGED <<source, written, node>>

Uint64 ==
    /\ HasNode
    /\ out' = [op |-> "uint64", res |-> uint64(source, node.res.span)]
    /\ UNCHANGED <<source, written, node>>

Next == Document \/ NodeNew \/ Table \/ Vector \/ Text \/ Uint64

\* The keys and the indices a caller looks up
LookupKeys == {<<"a">>, <<"b">>}

MaxIndex == 2

Tab ==
    /\ HasNode
    /\ \E key \in LookupKeys :
         out' = [op |-> "tab", key |-> key, res |-> tab(source, node.res.span, key)]
    /\ UNCHANGED <<source, written, node>>

Vec ==
    /\ HasNode
    /\ \E index \in 0..MaxIndex :
         out' = [op |-> "vec", index |-> index,
                 res |-> vec(source, node.res.span, index)]
    /\ UNCHANGED <<source, written, node>>

MaxSpan == 3

\* a.merge(&b) on two spans a caller has
Merge ==
    /\ \E a, b \in {Span(st, ln) : st, ln \in 0..MaxSpan} :
         \E res \in merge(a, b) :
           out' = [op |-> "merge", a |-> a, b |-> b, res |-> res]
    /\ UNCHANGED <<source, written, node>>

\* A Lexer over the source: its position is 0 after Lexer::new and is what
\* the last call left it at afterwards; out records the last call and the
\* position it was made from.  A call that failed ends the use of the lexer,
\* as every caller returns the error.
LexerPos == IF out = NoOut THEN 0 ELSE out.res.pos

LexerLive ==
    /\ node = NoNode
    /\ out = NoOut \/ (out.op \in {"next_token", "set_pos"} /\ out.res.ok)

LexerNextToken ==
    /\ LexerLive
    /\ out' = [op |-> "next_token", from |-> LexerPos,
               res |-> next_token(source, LexerPos)]
    /\ UNCHANGED <<source, written, node>>

LexerSetPos ==
    /\ LexerLive
    /\ \E p \in 0..Len(source) :
         out' = [op |-> "set_pos", res |-> [ok |-> TRUE, pos |-> p]]
    /\ UNCHANGED <<source, written, node>>

NextLexer == LexerNextToken \/ LexerSetPos

\* let child = &tbl[key] / &vec[i]: a Node that table or vector returned
\* becomes the Node of the next call
Descend ==
    /\ HasNode
    /\ out.op \in {"table", "vector"} /\ out.res.ok
    /\ \E child \in IF out.op = "table"
                    THEN {out.res.map[k] : k \in DOMAIN out.res.map}
                    ELSE {out.res.items[i] : i \in 1..Len(out.res.items)} :
         node' = [by |-> "member", res |-> Node(child)]
    /\ out' = NoOut
    /\ UNCHANGED <<source, written>>

NextNav == Document \/ Table \/ Vector \/ Descend

NextMerge == Merge

NextLookup == Document \/ NodeNew \/ Table \/ Vector \/ Tab \/ Vec

(***************************************************************************)
(* Inputs.  A generated source is written as a sequence of pieces, each a  *)
(* role and a text; the source is the concatenation of the texts.  The     *)
(* variable written records the pieces (it is <<>> for a source drawn as   *)
(* an arbitrary string), so that a result can be compared with what the    *)
(* author of the source wrote.                                             *)
(***************************************************************************)
Piece(role, txt) == [role |-> role, text |-> txt]

RECURSIVE Flatten(_)
Flatten(pieces) ==
    IF pieces = <<>> THEN <<>> ELSE Head(pieces).text \o Flatten(Tail(pieces))

RECURSIVE Concat(_)
Concat(seqs) == IF seqs = <<>> THEN <<>> ELSE Head(seqs) \o Concat(Tail(seqs))

MaxElems == 3

MaxNest == 2

\* The last separator may be missing; the others may not.
SepChoices(seps, k) ==
    {ss \in [1..k -> seps \cup {<<>>}] : \A i \in 1..(k - 1) : ss[i] # <<>>}

\* "[" e1 s1 e2 s2 ... "]"
VectorDoc(es, ss) ==
    <<Piece("open", <<"[">>)>>
      \o Concat([i \in 1..Len(es) |-> <<Piece("elem", es[i]), Piece("sep", ss[i])>>])
      \o <<Piece("close", <<"]">>)>>

\* "{ " k1 ": " v1 s1 k2 ": " v2 s2 ... "}"
TableDoc(ks, vs, ss) ==
    <<Piece("open", <<"{", " ">>)>>
      \o Concat([i \in 1..Len(ks) |->
                   <<Piece("key", ks[i]), Piece("colon", <<":", " ">>),
                     Piece("val", vs[i]), Piece("sep", ss[i])>>])
      \o <<Piece("close", <<"}">>)>>

Start(pieces, src) ==
    /\ written = pieces
    /\ source = src
    /\ node = NoNode
    /\ out = NoOut

\* Vectors of scalars with every kind of separator, repeated commas included
VecSeps ==
    {<<",">>, <<"\n">>, <<"\n", "\n">>, <<",", "\n">>, <<"\n", ",">>, <<",", ",">>}

VecElems == {<<"a">>, <<"b", "c">>}

InitVec ==
    \E k \in 0..MaxElems :
      \E es \in [1..k -> VecElems], ss \in SepChoices(VecSeps, k) :
        Start(VectorDoc(es, ss), Flatten(VectorDoc(es, ss)))

SpecVec == InitVec /\ [][Next]_vars

\* Tables whose values are a scalar, a quoted string or a vector
TabKeys == {<<"a">>, <<"b">>}

TabVals == {<<"x">>, <<"\"", "x", " ", "y", "\"">>, <<"[", "x", "]">>}

TabSeps == {<<" ">>, <<",">>}

InitTab ==
    \E k \in 0..MaxElems :
      \E ks \in [1..k -> TabKeys], vs \in [1..k -> TabVals],
         ss \in SepChoices(TabSeps, k) :
        Start(TableDoc(ks, vs, ss), Flatten(TableDoc(ks, vs, ss)))

SpecTab == InitTab /\ [][Next]_vars

\* Tables, vectors and bare values, nested one level, whole and cut short
NestVals == {<<"x">>, <<"[", "x", "]">>, <<"{", "a", ":", "x", "}">>}

\* A source and all the sources that are it cut short
StartPrefix(pieces) ==
    \E n \in 0..Len(Flatten(pieces)) :
      Start(pieces, SubSeq(Flatten(pieces), 1, n))

InitNest ==
    \/ \E k \in 0..MaxNest :
         \E vs \in [1..k -> NestVals], ss \in SepChoices(TabSeps, k) :
           \/ StartPrefix(TableDoc([i \in 1..k |-> <<"a">>], vs, ss))
           \/ StartPrefix(VectorDoc(vs, ss))
    \/ \E v \in NestVals : StartPrefix(<<Piece("val", v)>>)

SpecNest == InitNest /\ [][Next]_vars

MaxLen == 4

MaxInner == 3

MaxNumLen == 3

\* An arbitrary string of at most n characters of an alphabet
StartString(alphabet, n) ==
    \E k \in 0..n : \E s \in [1..k -> alphabet] : Start(<<>>, s)

\* Arbitrary strings of whitespace, comment, string and scalar characters,
\* a brace, a bracket and a colon
LexAlphabet == {"#", "*", "\"", "\\", "\n", " ", "a", "{", "]", ":"}

Init == StartString(LexAlphabet, MaxLen)

Spec == Init /\ [][Next]_vars

\* Arbitrary strings of scalar characters and of what may end a scalar
ScalarAlphabet == {"a", "#", "*", "\"", " ", "\t", "\r", "\n", ",", "["}

InitScalar == StartString(ScalarAlphabet, MaxLen)

SpecScalar == InitScalar /\ [][NextLexer]_vars

\* A lexer driven over the same arbitrary strings
SpecLexer == Init /\ [][NextLexer]_vars

\* Quoted strings over the escaped characters, one that is no escape and a
\* plain one; and arbitrary short strings with quotes, spaces and backslashes
EscAlphabet == {"\\", "n", "t", "r", ":", "\"", "[", "]", "{", "}", "x", "a"}

TextAlphabet == {"a", " ", "\"", "\\", "{"}

InitText ==
    \/ \E k \in 0..MaxInner : \E s \in [1..k -> EscAlphabet] :
         Start(<<>>, <<"\"">> \o s \o <<"\"">>)
    \/ StartString(TextAlphabet, MaxLen)

SpecText == InitText /\ [][Next]_vars

\* Short strings of digits, signs and other characters; and the numerals
\* around u64::MAX: one digit of it replaced, with a sign or a leading zero
NumAlphabet == {"0", "1", "9", "+", "-", ".", "a", " "}

InitNum ==
    \/ StartString(NumAlphabet, MaxNumLen)
    \/ \E i \in 1..Len(U64_MAX), d \in {"0", "4", "5", "6", "9"},
          sign \in {<<>>, <<"+">>, <<"-">>}, zero \in {<<>>, <<"0">>} :
         Start(<<>>, sign \o zero \o [U64_MAX EXCEPT ![i] = d])

SpecNum == InitNum /\ [][Next]_vars

\* An opening delimiter, a filler of whitespace, newline and comment
\* characters, and the closing delimiter of the same kind
FillAlphabet == {" ", "\n", "#", "*", "a"}

InitEmpty ==
    \E k \in 0..MaxLen : \E fill \in [1..k -> FillAlphabet] :
      \E d \in {<<"{", "}">>, <<"[", "]">>} :
        LET pieces == <<Piece("open", <<d[1]>>), Piece("fill", fill),
                        Piece("close", <<d[2]>>)>>
        IN  Start(pieces, Flatten(pieces))

SpecEmpty == InitEmpty /\ [][Next]_vars

MaxStruct == 4

\* Arbitrary strings of structural characters, a scalar character and a
\* quote; and the generated tables and vectors with nested values, whole
\* and cut short
StructAlphabet == {"{", "}", "[", "]", ":", ",", "a", "\""}

InitStruct ==
    \/ StartString(StructAlphabet, MaxStruct)
    \/ InitNest

SpecStruct == InitStruct /\ [][Next]_vars

\* Arbitrary strings of brackets, braces, colons and a letter, one character
\* longer, and the nested documents: the roots from which a caller descends
NavAlphabet == {"[", "]", "{", "}", ":", "a"}

InitNav == StartString(NavAlphabet, MaxStruct + 1) \/ InitNest

SpecNav == InitNav /\ [][NextNav]_vars

\* Tables whose keys are scalars and quoted strings: a and "a", the scalar
\* \n and the quoted "\n", the empty string, a quoted key with a space and
\* a quoted key with an escape that is none
KeyTexts ==
    {<<"a">>, <<"\"", "a", "\"">>, <<"\\", "n">>, <<"\"", "\\", "n", "\"">>,
     <<"\"", "\"">>, <<"\"", "a", " ", "\\", ":", "\"">>, <<"\"", "\\", "x", "\"">>}

InitKey ==
    \E k \in 0..MaxElems :
      \E ks \in [1..k -> KeyTexts], ss \in SepChoices({<<" ">>}, k) :
        Start(TableDoc(ks, [i \in 1..k |-> <<"x">>], ss),
              Flatten(TableDoc(ks, [i \in 1..k |-> <<"x">>], ss)))

SpecKey == InitKey /\ [][Next]_vars

\* Whole tables with keys a and b, and whole vectors, of scalar and nested
\* values, for the single-member lookups
InitLookup ==
    \E k \in 0..MaxNest :
      \E ks \in [1..k -> TabKeys], vs \in [1..k -> NestVals],
         ss \in SepChoices(TabSeps, k) :
        \/ Start(TableDoc(ks, vs, ss), Flatten(TableDoc(ks, vs, ss)))
        \/ Start(VectorDoc(vs, ss), Flatten(VectorDoc(vs, ss)))

SpecLookup == InitLookup /\ [][NextLookup]_vars

\* Spans alone: no source is involved in a merge
\* Tables and vectors whose last member goes wrong at one token: a token
\* that cannot be a key, a token that is not the colon, a token that cannot
\* be a value, or the end of the input in one of those places
GoodEntries(k) ==
    Concat([i \in 1..k |->
              <<Piece("key", <<"a">>), Piece("colon", <<":", " ">>),
                Piece("val", <<"x">>), Piece("sep", <<" ">>)>>])

GoodElems(k) ==
    Concat([i \in 1..k |-> <<Piece("elem", <<"x">>), Piece("sep", <<",", " ">>)>>])

BadKeys == {<<"[">>, <<"{">>, <<"]">>, <<":">>}

BadColons == {<<",">>, <<"\n">>, <<"}">>, <<"]">>, <<"b">>, <<"[">>, <<"\"", "b", "\"">>}

BadVals == {<<":">>, <<",">>, <<"\n">>, <<"}">>, <<"]">>}

BadElems == {<<":">>, <<"}">>}

\* The offending token and what follows it; the empty token is the end of
\* the input, and nothing follows it
BadTail(role, toks, rest) ==
    {<<Piece(role, t), Piece("rest", rest)>> : t \in toks}
      \cup {<<Piece(role, <<>>)>>}

BadTableTails ==
    BadTail("badkey", BadKeys, <<":", " ", "x", " ", "}">>)
      \cup {<<Piece("key", <<"a">>), Piece("fill", <<" ">>)>> \o t :
              t \in BadTail("badcolon", BadColons, <<" ", "x", " ", "}">>)}
      \cup {<<Piece("key", <<"a">>), Piece("colon", <<":", " ">>)>> \o t :
              t \in BadTail("badval", BadVals, <<" ", "}">>)}

BadVectorTails == BadTail("badelem", BadElems, <<" ", "]">>)

InitBad ==
    \E k \in 0..MaxNest :
      \/ \E t \in BadTableTails :
           LET doc == <<Piece("open", <<"{", " ">>)>> \o GoodEntries(k) \o t
           IN  Start(doc, Flatten(doc))
      \/ \E t \in BadVectorTails :
           LET doc == <<Piece("open", <<"[">>)>> \o GoodElems(k) \o t
           IN  Start(doc, Flatten(doc))

SpecBad == InitBad /\ [][Next]_vars

\* Tables and vectors whose members, keys and separators hold the characters
\* { } [ ] : , inside quoted strings, line comments and block comments.
\* Each piece is written twice: as it is, and with a letter in the place of
\* each such hidden character.
Hidden(role, txt, plain) == [role |-> role, text |-> txt, plain |-> plain]

Same(role, txt) == Hidden(role, txt, txt)

HiddenVals ==
    {<<<<"x">>, <<"x">>>>,
     <<<<"\"", "}", "]", "\"">>, <<"\"", "a", "a", "\"">>>>,
     <<<<"\"", ",", ":", "\"">>, <<"\"", "a", "a", "\"">>>>,
     <<<<"[", "x", " ", "#", "*", "]", "*", "#", " ", "]">>,
       <<"[", "x", " ", "#", "*", "a", "*", "#", " ", "]">>>>,
     <<<<"{", "a", ":", " ", "\"", "}", "\"", "}">>,
       <<"{", "a", ":", " ", "\"", "a", "\"", "}">>>>,
     <<<<"[", "#", "]", "\n", "x", "]">>, <<"[", "#", "a", "\n", "x", "]">>>>}

HiddenSeps ==
    {<<<<",">>, <<",">>>>,
     <<<<" ", "#", ",", "]", "\n">>, <<" ", "#", "a", "a", "\n">>>>,
     <<<<" ", "#", "*", "}", ",", "*", "#", " ">>,
       <<" ", "#", "*", "a", "a", "*", "#", " ">>>>}

\* The i-th key: a quoted letter with a colon after it
HiddenKey(i) ==
    LET letter == <<"a", "b", "c", "d", "e">>[i]
    IN  Hidden("key", <<"\"", letter, ":", "\"">>, <<"\"", letter, "a", "\"">>)

InitHidden ==
    \E k \in 0..MaxNest :
      \E vs \in [1..k -> HiddenVals], ss \in [1..k -> HiddenSeps] :
        \/ LET doc == <<Same("open", <<"[">>)>>
                        \o Concat([i \in 1..k |->
                                     <<Hidden("elem", vs[i][1], vs[i][2]),
                                       Hidden("sep", ss[i][1], ss[i][2])>>])
                        \o <<Same("close", <<"]">>)>>
           IN  Start(doc, Flatten(doc))
        \/ LET doc == <<Same("open", <<"{", " ">>)>>
                        \o Concat([i \in 1..k |->
                                     <<HiddenKey(i), Same("colon", <<":", " ">>),
                                       Hidden("val", vs[i][1], vs[i][2]),
                                       Hidden("sep", ss[i][1], ss[i][2])>>])
                        \o <<Same("close", <<"}">>)>>
           IN  Start(doc, Flatten(doc))

SpecHidden == InitHidden /\ [][Next]_vars

\* A well-formed table or vector and what follows its closing token
Junk ==
    {<<>>, <<" ", "j">>, <<" ", "{", "b", ":", " ", "2", "}">>, <<"}">>, <<"]">>,
     <<",">>, <<":", "x">>, <<" ", "[">>, <<" ", "\"">>, <<"#", "*">>}

InitTrail ==
    \E k \in 0..MaxNest :
      \E ks \in [1..k -> TabKeys], vs \in [1..k -> NestVals],
         ss \in SepChoices(TabSeps, k), j \in Junk :
        \/ LET doc == TableDoc(ks, vs, ss) \o <<Piece("junk", j)>>
           IN  Start(doc, Flatten(doc))
        \/ LET doc == VectorDoc(vs, ss) \o <<Piece("junk", j)>>
           IN  Start(doc, Flatten(doc))

SpecTrail == InitTrail /\ [][Next]_vars

InitMerge == Start(<<>>, <<>>)

SpecMerge == InitMerge /\ [][NextMerge]_vars

(***************************************************************************)
(* What the author of a generated source wrote                             *)
(***************************************************************************)
\* The spans of the pieces of one role, in source order
RECURSIVE SpansOf(_, _, _)
SpansOf(pieces, role, offset) ==
    IF pieces = <<>> THEN <<>>
    ELSE (IF Head(pieces).role = role
          THEN <<Span(offset, Len(Head(pieces).text))>>
          ELSE <<>>)
         \o SpansOf(Tail(pieces), role, offset + Len(Head(pieces).text))

\* The texts of the pieces of one role, in source order
RECURSIVE TextsOf(_, _)
TextsOf(pieces, role) ==
    IF pieces = <<>> THEN <<>>
    ELSE (IF Head(pieces).role = role THEN <<Head(pieces).text>> ELSE <<>>)
         \o TextsOf(Tail(pieces), role)

IsVectorDoc(pieces) == pieces # <<>> /\ pieces[1] = Piece("open", <<"[">>)

IsTableDoc(pieces) == pieces # <<>> /\ pieces[1] = Piece("open", <<"{", " ">>)

\* The source is the whole of what was written / is what was written, cut short
Whole == written # <<>> /\ source = Flatten(written)

CutShort == written # <<>> /\ Len(source) < Len(Flatten(written))

\* The mapping a written table stands for: each key to the value of its
\* last occurrence
WrittenMap(pieces) ==
    LET keys == TextsOf(pieces, "key")
        vals == SpansOf(pieces, "val", 0)
        Last(k) == CHOOSE i \in 1..Len(keys) :
                     /\ keys[i] = k
                     /\ \A j \in (i + 1)..Len(keys) : keys[j] # k
    IN  [k \in {keys[i] : i \in 1..Len(keys)} |-> vals[Last(k)]]

Commas(txt) == Cardinality({i \in 1..Len(txt) : txt[i] = ","})

\* The texts text() returns for the Nodes of a sequence
NodeTexts(src, items) ==
    [i \in 1..Len(items) |->
       IF text(src, items[i]).ok THEN text(src, items[i]).val ELSE <<>>]

FromDocument == node.by = "document" /\ node.res.ok

(***************************************************************************)
(* What an arbitrary source is, stated over its characters.  Positions are *)
(* 1-based; a piece (i, j) is the characters i..j-1.                       *)
(***************************************************************************)
NodeContent == trim(raw(source, node.res.span))

NoBackslash(txt) == \A i \in 1..Len(txt) : txt[i] # "\\"

Quoted(txt) == Len(txt) >= 2 /\ txt[1] = "\"" /\ txt[Len(txt)] = "\""

Interior(txt) == SubSeq(txt, 2, Len(txt) - 1)

\* The escape table of the format
EscapeTable ==
    [c \in {"\\", "n", "t", "r", ":", "\"", "[", "]", "{", "}"} |->
       CASE c = "n" -> "\n" [] c = "t" -> "\t" [] c = "r" -> "\r"
         [] OTHER -> c]

\* A backslash starts an escape when an even number of backslashes
\* immediately precede it
RunStart(txt, i) ==
    CHOOSE r \in 1..i :
      /\ \A k \in r..i : txt[k] = "\\"
      /\ r = 1 \/ txt[r - 1] # "\\"

EscStart(txt, i) == txt[i] = "\\" /\ (i - RunStart(txt, i)) % 2 = 0

Escaped(txt, i) == i > 1 /\ EscStart(txt, i - 1)

BadEscapes(txt) ==
    {i \in 1..(Len(txt) - 1) :
       EscStart(txt, i) /\ txt[i + 1] \notin DOMAIN EscapeTable}

DanglingEscape(txt) == txt # <<>> /\ EscStart(txt, Len(txt))

Min(set) == CHOOSE m \in set : \A n \in set : m <= n

\* The decoded characters, in order: an escape gives its table entry, an
\* escaped character nothing more, any other character itself
RECURSIVE Decoded(_, _)
Decoded(txt, i) ==
    IF i > Len(txt) THEN <<>>
    ELSE (IF EscStart(txt, i) THEN <<EscapeTable[txt[i + 1]]>>
          ELSE IF Escaped(txt, i) THEN <<>>
          ELSE <<txt[i]>>)
         \o Decoded(txt, i + 1)

AllDigits(txt) == \A i \in 1..Len(txt) : txt[i] \in
                    {"0", "1", "2", "3", "4", "5", "6", "7", "8", "9"}

RECURSIVE StripZeros(_)
StripZeros(txt) ==
    IF Len(txt) > 1 /\ txt[1] = "0" THEN StripZeros(Tail(txt)) ELSE txt

\* A numeral without leading zeros is at most 18446744073709551615
AtMostMax(n) ==
    \/ Len(n) < Len(U64_MAX)
    \/ /\ Len(n) = Len(U64_MAX)
       /\ \A i \in 1..Len(n) :
            (\A j \in 1..(i - 1) : n[j] = U64_MAX[j])
              => DigitVal(n[i]) <= DigitVal(U64_MAX[i])

IsNumeral(txt) == txt # <<>> /\ AllDigits(txt) /\ AtMostMax(StripZeros(txt))

At(src, i) == IF i >= 1 /\ i <= Len(src) THEN src[i] ELSE NoChar

\* Whitespace, a line comment up to and including its newline or the end of
\* input, or a closed block comment
BlankPiece(src, i, j) ==
    \/ j = i + 1 /\ src[i] \in {" ", "\t", "\r", "\n"}
    \/ /\ src[i] = "#" /\ At(src, i + 1) # "*"
       /\ \A k \in i..(j - 2) : src[k] # "\n"
       /\ src[j - 1] = "\n" \/ j = Len(src) + 1
    \/ /\ src[i] = "#" /\ At(src, i + 1) = "*"
       /\ j - 1 >= i + 3 /\ src[j - 2] = "*" /\ src[j - 1] = "#"
       /\ \A k \in (i + 2)..(j - 3) : ~(src[k] = "*" /\ src[k + 1] = "#")

RECURSIVE BlankFrom(_, _)
BlankFrom(src, i) ==
    \/ i > Len(src)
    \/ \E j \in (i + 1)..(Len(src) + 1) :
         BlankPiece(src, i, j) /\ BlankFrom(src, j)

IsBlank(src) == BlankFrom(src, 1)

\* The body of a string: characters other than quote and backslash, and
\* backslash followed by any character
RECURSIVE StringBody(_, _, _)
StringBody(src, k, e) ==
    \/ k > e
    \/ src[k] = "\\" /\ k + 1 <= e /\ StringBody(src, k + 2, e)
    \/ src[k] \notin {"\\", "\""} /\ StringBody(src, k + 1, e)

ClosedString(src, i, j) ==
    /\ src[i] = "\"" /\ j - 1 > i /\ src[j - 1] = "\""
    /\ StringBody(src, i + 1, j - 2)

ScalarEnd(src, k) ==
    \/ k > Len(src)
    \/ src[k] \in {" ", "\t", "\r", "\n", ",", ":", "[", "]", "{", "}"}
    \/ src[k] = "#" /\ At(src, k + 1) = "*"

\* A scalar runs from a character that starts no other token to the first
\* whitespace, structural character, or block comment opening
ScalarPiece(src, i, j) ==
    /\ ~ScalarEnd(src, i) /\ src[i] \notin {"\"", "#"}
    /\ \A k \in (i + 1)..(j - 1) : ~ScalarEnd(src, k)
    /\ ScalarEnd(src, j)

RECURSIVE LexableFrom(_, _)
LexableFrom(src, i) ==
    \/ i > Len(src)
    \/ \E j \in (i + 1)..(Len(src) + 1) :
         /\ \/ BlankPiece(src, i, j)
            \/ j = i + 1 /\ src[i] \in {",", ":", "[", "]", "{", "}"}
            \/ ClosedString(src, i, j)
            \/ ScalarPiece(src, i, j)
         /\ LexableFrom(src, j)

\* Every string and block comment of the source is closed
Lexable(src) == LexableFrom(src, 1)

(***************************************************************************)
(* Claims                                                                  *)
(***************************************************************************)

\* C1: a run of two or more commas between the elements of a vector, or
\* before its closing bracket, is one separator: vector(document(s))
\* succeeds with one Node per written element.
C1_RepeatedSeparatorsAccepted ==
    (FromDocument /\ out.op = "vector" /\ IsVectorDoc(written) /\ Whole)
      => /\ out.res.ok
         /\ Len(out.res.items) = Len(TextsOf(written, "elem"))

\* C2: when the elements of a vector are separated by one comma, by one or
\* more newlines, or by a comma together with newlines (one trailing
\* comma included), vector(document(s)) returns the written elements in
\* source order: the k-th Node spans the k-th element and has its text.
C2_SeparatorEquivalence ==
    (/\ FromDocument /\ out.op = "vector" /\ IsVectorDoc(written) /\ Whole
     /\ \A i \in 1..Len(written) : Commas(written[i].text) <= 1)
      => /\ out.res.ok
         /\ out.res.items = SpansOf(written, "elem", 0)
         /\ NodeTexts(source, out.res.items) = TextsOf(written, "elem")

C2_Witness ==
    /\ FromDocument /\ out.op = "vector" /\ out.res.ok
    /\ Len(out.res.items) = 3
    /\ \E i, j, k \in 1..Len(written) :
         /\ written[i] = Piece("sep", <<",", "\n">>)
         /\ written[j] = Piece("sep", <<"\n", "\n">>)
         /\ k = Len(written) - 1 /\ written[k] = Piece("sep", <<",">>)

\* C3: a table (a vector) cut short before its closing delimiter makes
\* table(root) (vector(root)) fail whenever document(source) succeeds; a
\* whole one succeeds with exactly the entries (elements) written.
C3_NestingBalance ==
    /\ (FromDocument /\ out.op = "table" /\ IsTableDoc(written) /\ CutShort)
         => ~out.res.ok
    /\ (FromDocument /\ out.op = "vector" /\ IsVectorDoc(written) /\ CutShort)
         => ~out.res.ok
    /\ (FromDocument /\ out.op = "table" /\ IsTableDoc(written) /\ Whole)
         => out.res.ok /\ out.res.map = WrittenMap(written)
    /\ (FromDocument /\ out.op = "vector" /\ IsVectorDoc(written) /\ Whole)
         => out.res.ok /\ out.res.items = SpansOf(written, "elem", 0)

\* A table cut short inside its second, nested value
C3_Witness ==
    /\ FromDocument /\ out.op = "table" /\ IsTableDoc(written) /\ CutShort
    /\ Len(TextsOf(written, "key")) = 2
    /\ ~out.res.ok /\ out.res.kind = "UnexpectedEof"

\* C4: vector() of a Node whose trimmed raw text does not start with '['
\* fails with NotAVector, and table() of a Node whose trimmed raw text does
\* not start with '{' fails with NotATable, each with the Node's span.
C4_ShapeGuard ==
    /\ (out.op = "vector" /\ ~starts_with(trim(raw(source, node.res.span)), "["))
         => out.res = Error("NotAVector", NoArg, node.res.span)
    /\ (out.op = "table" /\ ~starts_with(trim(raw(source, node.res.span)), "{"))
         => out.res = Error("NotATable", NoArg, node.res.span)

\* vector() of the root of a whole written table
C4_Witness ==
    /\ FromDocument /\ IsTableDoc(written) /\ Whole
    /\ Len(TextsOf(written, "key")) = 2
    /\ out.op = "vector" /\ ~out.res.ok /\ out.res.kind = "NotAVector"

\* C5: for a Node whose trimmed raw text is non-empty and has no
\* backslash, quoted or unquoted, text succeeds and returns exactly that
\* trimmed raw text.
C5_RoundTripIdentity ==
    (out.op = "text" /\ NodeContent # <<>> /\ NoBackslash(NodeContent))
      => out.res.ok /\ out.res.val = NodeContent

\* C5, as the code has it: text of such a Node returns the trimmed raw text
\* when it does not start with a quote, the characters between the quotes
\* when it starts and ends with one, both without a copy; started with a
\* quote and not ended with one, it fails with UnclosedString.
C5_RoundTripAmended ==
    (out.op = "text" /\ NodeContent # <<>> /\ NoBackslash(NodeContent))
      => IF NodeContent[1] # "\""
         THEN out.res.ok /\ out.res.val = NodeContent /\ ~out.res.owned
         ELSE IF Quoted(NodeContent)
         THEN out.res.ok /\ out.res.val = Interior(NodeContent) /\ ~out.res.owned
         ELSE out.res = Error("UnclosedString", NoArg, node.res.span)

\* text of a quoted Node with spaces around it: the interior
C5_Witness ==
    /\ node.by = "new" /\ out.op = "text" /\ out.res.ok
    /\ source = <<" ", "\"", "a", "\"">>
    /\ out.res.val = <<"a">>

\* C6: text of a quoted string decodes each of the ten escapes to its
\* table entry and copies every other character in order; the first
\* backslash followed by a character Y outside the table makes it fail
\* with InvalidEscape(Y).
C6_EscapeCompleteness ==
    (out.op = "text" /\ Quoted(NodeContent))
      => LET inner == Interior(NodeContent)
         IN  /\ (BadEscapes(inner) = {} /\ ~DanglingEscape(inner))
                  => out.res.ok /\ out.res.val = Decoded(inner, 1)
             /\ BadEscapes(inner) # {}
                  => out.res = Error("InvalidEscape",
                                     inner[Min(BadEscapes(inner)) + 1],
                                     node.res.span)

\* an escaped brace after a plain character
C6_Witness ==
    /\ out.op = "text" /\ out.res.ok
    /\ source = <<"\"", "a", "\\", "}", "\"">>
    /\ out.res.val = <<"a", "}">> /\ out.res.owned

\* C7: uint64 succeeds exactly when the trimmed raw text is a non-empty
\* string of decimal digits only, of value at most 2^64-1, and returns
\* that value; on every other text, a leading '+' included, it fails with
\* ParseError.
C7_DigitsOnly ==
    out.op = "uint64"
      => IF IsNumeral(NodeContent)
         THEN out.res.ok /\ out.res.val = StripZeros(NodeContent)
         ELSE ~out.res.ok /\ out.res.kind = "ParseError"

\* C7, as the code has it: one '+' may precede the digits.
C7_OptionalPlus ==
    out.op = "uint64"
      => LET c == NodeContent
             digits == IF c # <<>> /\ c[1] = "+" THEN Tail(c) ELSE c
         IN  IF IsNumeral(digits)
             THEN out.res.ok /\ out.res.val = StripZeros(digits)
             ELSE /\ ~out.res.ok /\ out.res.kind = "ParseError"
                  /\ out.res.span = node.res.span

\* 18446744073709551615 succeeds; so does +1
C7_Witness ==
    /\ out.op = "uint64" /\ out.res.ok
    /\ \/ source = U64_MAX /\ out.res.val = U64_MAX
       \/ source = <<"+", "1">> /\ out.res.val = <<"1">>

\* C8: for a source that is empty or only whitespace, newlines, line
\* comments and closed block comments, document succeeds with the Node of
\* span (0, 0), whose raw text is empty.
C8_EmptyDocument ==
    (node.by = "document" /\ IsBlank(source))
      => /\ node.res = Node(Span(0, 0))
         /\ raw(source, node.res.span) = <<>>

\* a closed block comment; a line comment between whitespace
C8_Witness ==
    /\ node.by = "document" /\ node.res.ok
    /\ \/ source = <<"#", "*", "*", "#">>
       \/ source = <<" ", "#", "a", "\n">>

\* C9: document fails only with UnclosedString or UnclosedComment, and
\* fails exactly when a string or a block comment of the source is not
\* closed before the end of input; otherwise it succeeds, whatever the
\* braces of the source.
C9_LexicalErrorsOnly ==
    node.by = "document"
      => /\ node.res.ok <=> Lexable(source)
         /\ ~node.res.ok => node.res.kind \in {"UnclosedString", "UnclosedComment"}

\* a mismatched source succeeds; an unclosed string after a brace fails
C9_Witness ==
    /\ node.by = "document"
    /\ \/ source = <<"{", "]", ":", "a">> /\ node.res.ok
       \/ /\ source = <<"{", " ", "\"", "a">>
          /\ ~node.res.ok /\ node.res.kind = "UnclosedString"

\* C10: the entries of a table need no separator token: written on one
\* line with only spaces between them, table(document(s)) has one entry per
\* written key, whose Node spans that key's (last) value.
C10_SpaceSeparatedEntries ==
    (/\ FromDocument /\ out.op = "table" /\ IsTableDoc(written) /\ Whole
     /\ \A i \in 1..Len(written) :
          written[i].role = "sep" => written[i].text \in {<<>>, <<" ">>})
      => /\ out.res.ok
         /\ out.res.map = WrittenMap(written)

\* { a: x b: "x y" a: [x] }
C10_Witness ==
    /\ FromDocument /\ out.op = "table" /\ out.res.ok
    /\ TextsOf(written, "key") = <<<<"a">>, <<"b">>, <<"a">>>>
    /\ TextsOf(written, "val") =
         <<<<"x">>, <<"\"", "x", " ", "y", "\"">>, <<"[", "x", "]">>>>
    /\ TextsOf(written, "sep") = <<<<" ">>, <<" ">>, <<" ">>>>
    /\ DOMAIN out.res.map = {<<"a">>, <<"b">>}

\* The characters i..e-1 are whitespace, newlines, line comments ended by
\* their newline and closed block comments
RECURSIVE BlankBetween(_, _, _)
BlankBetween(src, i, e) ==
    \/ i = e
    \/ \E j \in (i + 1)..e : BlankPiece(src, i, j) /\ BlankBetween(src, j, e)

\* The source is an opening and a closing delimiter with only blank text
\* between them
EmptyContainer(open) ==
    /\ written # <<>> /\ written[1] = Piece("open", <<open>>)
    /\ written[2].role = "fill"
    /\ BlankBetween(source, 2, Len(source))

\* C11: for '{' and '}' with only whitespace, newlines or comments between
\* them table(document(s)) succeeds with the empty mapping; for '[' and
\* ']' likewise vector(document(s)) succeeds with the empty sequence.
C11_EmptyContainers ==
    /\ (FromDocument /\ out.op = "table" /\ EmptyContainer("{"))
         => out.res.ok /\ DOMAIN out.res.map = {}
    /\ (FromDocument /\ out.op = "vector" /\ EmptyContainer("["))
         => out.res.ok /\ out.res.items = <<>>
    /\ (node.by = "document" /\ (EmptyContainer("{") \/ EmptyContainer("[")))
         => node.res = Node(Span(0, Len(source)))

\* braces around a line comment and its newline
C11_Witness ==
    /\ FromDocument /\ out.op = "table" /\ out.res.ok
    /\ source = <<"{", " ", "#", "a", "\n", "}">>

InBounds(span) ==
    span.start >= 0 /\ span.len >= 0 /\ span.start + span.len <= Len(source)

\* C12: every Span returned for a source of length L (of a token from
\* next_token at any position, of the Node from document, of every Node
\* from table and vector, of every Error) has start + len <= L.
C12_SpanBound ==
    /\ \A pos \in 0..Len(source) : InBounds(next_token(source, pos).span)
    /\ node.by = "document" => InBounds(node.res.span)
    /\ (out.op = "table" /\ out.res.ok)
         => \A k \in DOMAIN out.res.map : InBounds(out.res.map[k])
    /\ (out.op = "vector" /\ out.res.ok)
         => \A i \in 1..Len(out.res.items) : InBounds(out.res.items[i])
    /\ (out # NoOut /\ ~out.res.ok) => InBounds(out.res.span)

\* a nested vector that reaches the end of input: the error's span is the
\* empty span at the source's length
C12_Witness ==
    /\ FromDocument /\ out.op = "vector" /\ ~out.res.ok
    /\ source = <<"[", "[", "a">>
    /\ out.res.span = Span(3, 0)

\* The positions of the written keys that are written again later
Rewritten(keys) ==
    {i \in 1..Len(keys) : \E j \in (i + 1)..Len(keys) : keys[j] = keys[i]}

\* C13: when a table source holds the same key more than once, table
\* succeeds and the mapping has exactly one entry for that key: the Node of
\* the value of the key's last occurrence.
C13_LastWriteWins ==
    LET keys == TextsOf(written, "key")
        vals == SpansOf(written, "val", 0)
    IN  (/\ FromDocument /\ out.op = "table" /\ IsTableDoc(written) /\ Whole
         /\ Rewritten(keys) # {})
          => /\ out.res.ok
             /\ DOMAIN out.res.map = {keys[i] : i \in 1..Len(keys)}
             /\ \A j \in 1..Len(keys) :
                  j \notin Rewritten(keys) => out.res.map[keys[j]] = vals[j]

\* { a: x,b: "x y",a: [x],}
C13_Witness ==
    /\ FromDocument /\ out.op = "table" /\ out.res.ok /\ Whole
    /\ TextsOf(written, "key") = <<<<"a">>, <<"b">>, <<"a">>>>
    /\ TextsOf(written, "sep") = <<<<",">>, <<",">>, <<",">>>>
    /\ out.res.map[<<"a">>] = SpansOf(written, "val", 0)[3]
    /\ out.res.map[<<"a">>] # SpansOf(written, "val", 0)[1]

\* What a written key stands for: a quoted key its decoding, any other key
\* itself
KeyMeaning(kt) == IF Quoted(kt) THEN Decoded(Interior(kt), 1) ELSE kt

BadKey(kt) == Quoted(kt) /\ BadEscapes(Interior(kt)) # {}

\* C14: table stores a key written as a quoted string as its decoding
\* (quotes removed, escapes resolved) and a key written as a scalar
\* verbatim, so a quoted and an unquoted key of the same decoded text are
\* one key; a quoted key with an invalid escape makes table fail with
\* InvalidEscape.
C14_KeyDecoding ==
    LET keys == TextsOf(written, "key")
        spans == SpansOf(written, "key", 0)
        vals == SpansOf(written, "val", 0)
        bad == {i \in 1..Len(keys) : BadKey(keys[i])}
    IN  (FromDocument /\ out.op = "table" /\ IsTableDoc(written) /\ Whole)
          => IF bad # {}
             THEN out.res =
                    Error("InvalidEscape",
                          Interior(keys[Min(bad)])[Min(BadEscapes(Interior(keys[Min(bad)]))) + 1],
                          spans[Min(bad)])
             ELSE /\ out.res.ok
                  /\ DOMAIN out.res.map = {KeyMeaning(keys[i]) : i \in 1..Len(keys)}
                  /\ \A j \in 1..Len(keys) :
                       (\A l \in (j + 1)..Len(keys) :
                          KeyMeaning(keys[l]) # KeyMeaning(keys[j]))
                         => out.res.map[KeyMeaning(keys[j])] = vals[j]

\* { a: x "a": x \n: x }: two keys, a and the two characters \n
C14_Witness ==
    /\ FromDocument /\ out.op = "table" /\ out.res.ok /\ Whole
    /\ TextsOf(written, "key") = <<<<"a">>, <<"\"", "a", "\"">>, <<"\\", "n">>>>
    /\ DOMAIN out.res.map = {<<"a">>, <<"\\", "n">>}
    /\ out.res.map[<<"a">>] = SpansOf(written, "val", 0)[2]

\* table and vector of the Node a lookup was made on
Materialized == table(source, node.res.span)

Elements == vector(source, node.res.span)

\* C15: tab(node, key) returns the Node table(node) holds at key, and
\* fails with KeyNotFound(key) when the key is absent; vec(node, index)
\* returns the Node vector(node) holds at index, and fails with
\* IndexOutOfBounds(index) when the index is not less than the length.
C15_LookupEqualsMaterialize ==
    /\ (out.op = "tab" /\ Materialized.ok)
         => IF out.key \in DOMAIN Materialized.map
            THEN out.res = Node(Materialized.map[out.key])
            ELSE ~out.res.ok /\ out.res.kind = "KeyNotFound"
                 /\ out.res.arg = out.key
    /\ (out.op = "vec" /\ Elements.ok)
         => IF out.index < Len(Elements.items)
            THEN out.res = Node(Elements.items[out.index + 1])
            ELSE ~out.res.ok /\ out.res.kind = "IndexOutOfBounds"
                 /\ out.res.arg = out.index

\* C15, as the navigator's description has it: a lookup returns at once on
\* the first entry whose key matches, so for a key written more than once
\* tab returns the value of its first occurrence, where table holds the
\* last; for a key written once, and for vec, the results agree.
C15_LookupFirstMatch ==
    LET keys == TextsOf(written, "key")
        vals == SpansOf(written, "val", 0)
        at == {i \in 1..Len(keys) : keys[i] = out.key}
    IN  /\ (out.op = "tab" /\ Materialized.ok /\ IsTableDoc(written) /\ Whole)
             => IF at = {}
                THEN /\ out.key \notin DOMAIN Materialized.map
                     /\ ~out.res.ok /\ out.res.kind = "KeyNotFound"
                     /\ out.res.arg = out.key
                ELSE /\ out.res = Node(vals[Min(at)])
                     /\ Cardinality(at) = 1
                          => out.res = Node(Materialized.map[out.key])
        /\ (out.op = "vec" /\ Elements.ok)
             => IF out.index < Len(Elements.items)
                THEN out.res = Node(Elements.items[out.index + 1])
                ELSE ~out.res.ok /\ out.res.kind = "IndexOutOfBounds"
                     /\ out.res.arg = out.index

\* tab at a key written twice: the first value, where table holds the second
C15_Witness ==
    /\ FromDocument /\ out.op = "tab" /\ out.key = <<"a">> /\ out.res.ok
    /\ TextsOf(written, "key") = <<<<"a">>, <<"a">>>>
    /\ out.res.span = SpansOf(written, "val", 0)[1]
    /\ Materialized.ok
    /\ Materialized.map[<<"a">>] = SpansOf(written, "val", 0)[2]

ErrorKinds ==
    {"UnexpectedEof", "UnexpectedChar", "ExpectedChar", "InvalidEscape",
     "UnclosedString", "UnclosedComment", "NotATable", "NotAVector",
     "NotAScalar", "KeyNotFound", "IndexOutOfBounds", "ParseError"}

\* C16: every error returned by document, table, vector, text or uint64
\* has one of the twelve kinds of the taxonomy.
C16_ClosedTaxonomy ==
    /\ (node # NoNode /\ ~node.res.ok) => node.res.kind \in ErrorKinds
    /\ (out # NoOut /\ ~out.res.ok) => out.res.kind \in ErrorKinds

\* C17: for any two spans a and b, with a gap between them or not,
\* a.merge(b) returns, with no assertion violated, the span from the
\* least start to the greatest end; b.merge(a) returns the same.
C17_MergeTotal ==
    out.op = "merge"
      => /\ out.res.ok
         /\ out.res.span.start = min(out.a.start, out.b.start)
         /\ end(out.res.span) = max(end(out.a), end(out.b))
         /\ out.res \in merge(out.b, out.a)

\* The member values of a successful table or vector
Members ==
    IF out.op = "table" THEN {out.res.map[k] : k \in DOMAIN out.res.map}
    ELSE {out.res.items[i] : i \in 1..Len(out.res.items)}

\* C18: whenever table or vector succeeds, every member value that begins
\* with '{' ends on a '}' and every member value that begins with '[' ends
\* on a ']': a value is never ended by a closing token of the other kind.
C18_MatchingCloser ==
    (out.op \in {"table", "vector"} /\ out.res.ok)
      => \A v \in Members :
           /\ v.len > 0 /\ source[v.start + 1] = "{" => source[end(v)] = "}"
           /\ v.len > 0 /\ source[v.start + 1] = "[" => source[end(v)] = "]"

\* The source was cut inside a written value that opens with '{' or '[':
\* after its opening delimiter and before its last character
CutInsideNested ==
    \E p \in 1..Len(written) :
      LET before == Len(Flatten(SubSeq(written, 1, p - 1)))
      IN  /\ written[p].role \in {"val", "elem"}
          /\ written[p].text[1] \in {"{", "["}
          /\ before + 1 <= Len(source)
          /\ Len(source) < before + Len(written[p].text)

\* C19: when the end of input is reached while table or vector scans a
\* member value that opened with '{' or '[', the operation fails with
\* UnexpectedEof at the zero-length span at the end of the source.
C19_EofInNestedValue ==
    (/\ HasNode /\ CutInsideNested
     /\ \/ out.op = "table" /\ IsTableDoc(written)
        \/ out.op = "vector" /\ IsVectorDoc(written))
      => out.res = Error("UnexpectedEof", NoArg, Span(Len(source), 0))

\* a vector cut inside its second element, a nested table
C19_Witness ==
    /\ FromDocument /\ out.op = "vector" /\ IsVectorDoc(written)
    /\ TextsOf(written, "elem") = <<<<"x">>, <<"{", "a", ":", "x", "}">>>>
    /\ Len(source) = Len(Flatten(written)) - 2
    /\ ~out.res.ok /\ out.res.kind = "UnexpectedEof"

\* A token other than Newline: a structural character, a closed string or
\* a scalar
TokenPiece(src, i, j) ==
    \/ j = i + 1 /\ src[i] \in {",", ":", "[", "]", "{", "}"}
    \/ ClosedString(src, i, j)
    \/ ScalarPiece(src, i, j)

\* Position i is where a piece of the source starts, lexing from offset 0
RECURSIVE PieceStart(_, _)
PieceStart(src, i) ==
    \/ i = 1
    \/ \E h \in 1..(i - 1) :
         /\ PieceStart(src, h)
         /\ BlankPiece(src, h, i) \/ TokenPiece(src, h, i)

\* C20: for a source with a token other than Newline, document returns the
\* Node from the start of the first such token to the end of the last;
\* whitespace, newlines and comments before the first and after the last
\* are outside the span, those between them inside.
C20_DocumentSpan ==
    (node.by = "document" /\ node.res.ok /\ ~IsBlank(source))
      => LET i == node.res.span.start + 1
             l == end(node.res.span) + 1
         IN  /\ i >= 1 /\ l <= Len(source) + 1
             /\ BlankBetween(source, 1, i)
             /\ \E j \in (i + 1)..l : TokenPiece(source, i, j)
             /\ \E k \in i..(l - 1) :
                  PieceStart(source, k) /\ TokenPiece(source, k, l)
             /\ BlankFrom(source, l)

\* newline a { newline: the span is a {
C20_Witness ==
    /\ node.by = "document" /\ node.res.ok
    /\ source = <<"\n", "a", "{", "\n">>
    /\ node.res.span = Span(1, 2)

\* The span of the one piece of a role that was written
Offender(role) == SpansOf(written, role, 0)[1]

Wrote(role) == SpansOf(written, role, 0) # <<>>

BadValue ==
    IF out.op = "table" THEN Offender("badval") ELSE Offender("badelem")

ValueCase ==
    /\ Whole
    /\ \/ out.op = "table" /\ Wrote("badval")
       \/ out.op = "vector" /\ Wrote("badelem")

\* C22: when the token after a colon in table(), or at an element position
\* in vector(), cannot start a value, the operation fails with
\* UnexpectedChar(c) at the span of that token, c being the character of the
\* source at the offset where the token starts.
C22_CharAtTokenStart ==
    ValueCase
      => /\ BadValue.start < Len(source)
         /\ out.res = Error("UnexpectedChar", source[BadValue.start + 1], BadValue)

\* C22, amended: c is the first character of the token's text; the end of
\* the input has no text and no character at its offset, and c is then a
\* space.
C22_CharOrSpace ==
    ValueCase
      => out.res = Error("UnexpectedChar",
                         IF BadValue.len > 0 THEN source[BadValue.start + 1] ELSE " ",
                         BadValue)

\* { a: } }: the value position holds the closing brace
C22_Witness ==
    /\ out.op = "table"
    /\ source = <<"{", " ", "a", ":", " ", "}", " ", "}">>
    /\ Wrote("badval")
    /\ out.res = Error("UnexpectedChar", "}", Span(5, 1))

\* The 1-based index of the character the last next_token call started its
\* token at: the first one at or after the call's position that is not a
\* space, a tab or a carriage return (one past the end if there is none)
TokenStart ==
    Min({k \in (out.from + 1)..(Len(source) + 1) :
           At(source, k) \notin {" ", "\t", "\r"}})

\* The offset just after the first newline at or after index i, or the end
\* of the source if there is none
AfterLine(src, i) ==
    LET nl == {k \in i..Len(src) : src[k] = "\n"}
    IN  IF nl = {} THEN Len(src) ELSE Min(nl)

\* C23: when next_token starts at a '#' that is not followed by '*', what it
\* returns is what it returns from just after the next newline (or from the
\* end of the input when there is no newline): the comment and the newline
\* that ends it give no token, and the token returned lies after them.
C23_LineComment ==
    (out.op = "next_token" /\ At(source, TokenStart) = "#"
       /\ At(source, TokenStart + 1) # "*")
      => /\ out.res = next_token(source, AfterLine(source, TokenStart))
         /\ out.res.ok => out.res.span.start >= AfterLine(source, TokenStart)

\* #a newline a: the token is the scalar a of the second line
C23_Witness ==
    /\ out.op = "next_token" /\ out.from = 0
    /\ source = <<"#", "a", "\n", "a">>
    /\ out.res = Token("Scalar", Span(3, 1), 4)

\* The indexes, from i on, at which a "*#" begins
Closers(src, i) ==
    {k \in i..(Len(src) - 1) : src[k] = "*" /\ src[k + 1] = "#"}

StringEnds(src, i) ==
    {j \in (i + 2)..(Len(src) + 1) : ClosedString(src, i, j)}

\* C25: when next_token starts at a double quote, the String token runs from
\* it to the first later quote that is not the character taken by a
\* backslash, each backslash taking one following character whatever it is;
\* when the input ends before such a quote, it fails with UnclosedString
\* from the opening quote to the end of the source.
C25_StringExtent ==
    (out.op = "next_token" /\ At(source, TokenStart) = "\"")
      => LET ends == StringEnds(source, TokenStart)
         IN  IF ends = {}
             THEN out.res = Error("UnclosedString", NoArg,
                                  Span(TokenStart - 1, Len(source) - (TokenStart - 1)))
             ELSE \A j \in ends :
                    out.res = Token("String", Span(TokenStart - 1, j - TokenStart), j - 1)

\* "\"" : the quote after the backslash does not close the string
C25_Witness ==
    /\ out.op = "next_token" /\ out.from = 0
    /\ source = <<"\"", "\\", "\"", "\"">>
    /\ out.res = Token("String", Span(0, 4), 4)

\* C26: when next_token starts at a character that is not whitespace, a
\* newline, one of { } [ ] : , a double quote or '#', it returns a Scalar
\* token that runs up to, not including, the next space, tab, carriage
\* return, newline, one of { } [ ] : , or "#*" (or the end of the input); a
\* '#' not followed by '*' and a double quote do not end it.
C26_ScalarExtent ==
    (out.op = "next_token" /\ TokenStart <= Len(source)
       /\ source[TokenStart]
            \notin {" ", "\t", "\r", "\n", "{", "}", "[", "]", ":", ",", "\"", "#"})
      => LET j == Min({k \in (TokenStart + 1)..(Len(source) + 1) :
                         \/ k > Len(source)
                         \/ source[k] \in {" ", "\t", "\r", "\n",
                                           "{", "}", "[", "]", ":", ","}
                         \/ source[k] = "#" /\ At(source, k + 1) = "*"})
         IN  out.res = Token("Scalar", Span(TokenStart - 1, j - TokenStart), j - 1)

\* a#"a: neither the '#' nor the quote ends the scalar
C26_Witness ==
    /\ out.op = "next_token" /\ out.from = 0
    /\ source = <<"a", "#", "\"", "a">>
    /\ out.res = Token("Scalar", Span(0, 4), 4)

\* What a successful next_token call does besides leaving the position
\* alone at the end of the input: Eof is of length zero, and the next call
\* returns it again; any other token is at least one character long, lies
\* at or after the position of the call and ends where the lexer is left,
\* which is further on; and the token of the next call lies after it.
Progress ==
    LET tok == out.res
        nxt == next_token(source, tok.pos)
    IN  IF tok.kind = "Eof"
        THEN tok.span.len = 0 /\ nxt = tok
        ELSE /\ tok.span.len >= 1
             /\ tok.span.start >= out.from
             /\ tok.pos = end(tok.span) /\ tok.pos > out.from
             /\ tok.pos <= Len(source)
             /\ nxt.ok => /\ nxt.span.start >= end(tok.span)
                          /\ nxt.kind # "Eof" => end(nxt.span) > end(tok.span)

\* C27: a next_token call either fails, or returns Eof, of length zero,
\* with the position unchanged and every later call returning the same Eof,
\* or returns a token at least one character long and leaves the position
\* strictly greater; successive tokens have increasing, non-overlapping
\* spans.
C27_EofLeavesPosition ==
    (out.op = "next_token" /\ out.res.ok)
      => /\ Progress
         /\ out.res.kind = "Eof" => out.res.pos = out.from

\* C27, amended: Eof leaves the position at the end of the source, which is
\* further on than the position of the call when whitespace or comments lay
\* in between; the rest as stated.
C27_EofAtEnd ==
    (out.op = "next_token" /\ out.res.ok)
      => /\ Progress
         /\ out.res.kind = "Eof"
              => /\ out.res.span = Span(Len(source), 0)
                 /\ out.res.pos = Len(source) /\ out.res.pos >= out.from

\* "a " from position 1: Eof at 2, where the lexer is left
C27_Witness ==
    /\ out.op = "next_token" /\ out.from = 1
    /\ source = <<"a", " ">>
    /\ out.res = Token("Eof", Span(2, 0), 2)

\* The closing delimiter of the container table or vector read
Closer == IF out.op = "table" THEN "}" ELSE "]"

\* C28: for a Node n that document returned, or that a chain of successful
\* table and vector calls from it returned, every Node that table(n) or
\* vector(n) returns lies strictly inside n's span, after n's opening
\* delimiter and before a closing delimiter of n's kind that is in n's
\* span; the elements of a vector are disjoint and in source order.
C28_ChildContainment ==
    (out.op \in {"table", "vector"} /\ out.res.ok /\ node.by \in {"document", "member"})
      => LET n == node.res.span
         IN  /\ \A m \in Members : m.start > n.start /\ end(m) < end(n)
             /\ \E c \in (n.start + 1)..(end(n) - 1) :
                  /\ source[c + 1] = Closer
                  /\ \A m \in Members : end(m) <= c
             /\ out.op = "vector"
                  => \A i \in 1..(Len(out.res.items) - 1) :
                       /\ out.res.items[i].len >= 1
                       /\ end(out.res.items[i]) <= out.res.items[i + 1].start

\* [[a]]: the vector read from the element of the root
C28_Witness ==
    /\ source = <<"[", "[", "a", "]", "]">>
    /\ node = [by |-> "member", res |-> Node(Span(1, 3))]
    /\ out.op = "vector"
    /\ out.res = [ok |-> TRUE, items |-> <<Span(2, 1)>>]

\* The source with a letter in the place of each hidden character
RECURSIVE PlainSource(_)
PlainSource(pieces) ==
    IF pieces = <<>> THEN <<>> ELSE Head(pieces).plain \o PlainSource(Tail(pieces))

\* C29: the characters { } [ ] : , inside a quoted string, a line comment or
\* a block comment neither change the nesting depth nor separate members:
\* table() and vector() return the members that were written, with the spans
\* they were written at, and the same number of members with the same spans
\* as on the source in which those characters are letters.
C29_HiddenDelimiters ==
    /\ (out.op = "vector" /\ written[1].text = <<"[">>)
         => LET plain == vector(PlainSource(written), node.res.span)
            IN  /\ out.res = [ok |-> TRUE, items |-> SpansOf(written, "elem", 0)]
                /\ plain = out.res
    /\ (out.op = "table" /\ written[1].text = <<"{", " ">>)
         => LET plain == table(PlainSource(written), node.res.span)
                keys == TextsOf(written, "key")
                vals == SpansOf(written, "val", 0)
            IN  /\ out.res.ok /\ plain.ok
                /\ DOMAIN out.res.map = {KeyMeaning(keys[i]) : i \in 1..Len(keys)}
                /\ \A i \in 1..Len(keys) : out.res.map[KeyMeaning(keys[i])] = vals[i]
                /\ Cardinality(DOMAIN plain.map) = Cardinality(DOMAIN out.res.map)
                /\ {plain.map[q] : q \in DOMAIN plain.map}
                     = {out.res.map[q] : q \in DOMAIN out.res.map}

\* { "a:": {a: "}"} #,] newline "b:": "}]",}
C29_Witness ==
    /\ out.op = "table" /\ out.res.ok
    /\ TextsOf(written, "val")
         = <<<<"{", "a", ":", " ", "\"", "}", "\"", "}">>, <<"\"", "}", "]", "\"">>>>
    /\ TextsOf(written, "sep") = <<<<" ", "#", ",", "]", "\n">>, <<",">>>>
    /\ out.res.map = (<<"a", ":">> :> Span(8, 8)) @@ (<<"b", ":">> :> Span(27, 4))

\* C30: table(n) stops at the first top-level '}' and vector(n) at the first
\* top-level ']': whatever follows that token in the source, be it a word, a
\* second container, a stray closing token or an unclosed string or
\* comment, the call succeeds with the members of the first container and
\* nothing else.
C30_TrailingIgnored ==
    /\ (out.op = "table" /\ IsTableDoc(written))
         => out.res = [ok |-> TRUE, map |-> WrittenMap(written)]
    /\ (out.op = "vector" /\ IsVectorDoc(written))
         => out.res = [ok |-> TRUE, items |-> SpansOf(written, "elem", 0)]

\* { a: x } {b: 2}: the root spans both tables, table(root) holds a only
C30_Witness ==
    /\ source = <<"{", " ", "a", ":", " ", "x", " ", "}", " ", "{", "b", ":", " ", "2", "}">>
    /\ node = [by |-> "document", res |-> Node(Span(0, 15))]
    /\ out.op = "table"
    /\ out.res = [ok |-> TRUE, map |-> (<<"a">> :> Span(5, 1))]

====
